---- MODULE Spec2Model ----
(***************************************************************************)
(* A model of the postings subsystem of MeTA: the in-memory postings       *)
(* record (postings_data), its delimiter-terminated gap encoding, the      *)
(* postings file lookup (postings_file), and the build of the forward      *)
(* index (forward_index): the compress pass, the uninversion of an         *)
(* inverted index, the direct ingest of libsvm data, and create_index      *)
(* with the corpus.uniqueterms sentinel.                                   *)
(*                                                                         *)
(* A pair of the record is [first |-> secondary key, second |-> weight],   *)
(* as std::pair<SecondaryKey, double>.  A weight is a non-negative         *)
(* integer-valued double; the model keeps MantBits bits of significand     *)
(* (53 in the build) and rounds every sum to nearest, ties to even, as     *)
(* the hardware does.  An unsigned word has WordBits bits (64 in the       *)
(* build).                                                                 *)
(***************************************************************************)
EXTENDS Integers, Sequences, FiniteSets, TLC

\* ------------------------------------------------------------------ bounds

\* secondary keys of the record operations are 0..MaxKey
MaxKey == 2
\* longest sequence handed to set_counts, longest operand of merge_with
MaxLen == 2
\* number of calls made on one record
MaxOps == 3
\* bits of significand of a weight (DBL_MANT_DIG, scaled down)
MantBits == 3

Keys == 0..MaxKey

\* the weights the inputs are drawn from: zero, one, and the first power of
\* two whose successor is not representable
Weights == {0, 1, 2^MantBits}

Pair(k, w) == [first |-> k, second |-> w]

Pairs == {Pair(k, w) : k \in Keys, w \in Weights}

RECURSIVE SeqsUpTo(_, _)
\* all sequences over S of length at most n
SeqsUpTo(S, n) ==
    IF n = 0 THEN {<<>>}
    ELSE LET shorter == SeqsUpTo(S, n - 1)
         IN shorter \cup {Append(s, x) : s \in {t \in shorter : Len(t) = n - 1}, x \in S}

Range(s) == {s[i] : i \in DOMAIN s}

\* ------------------------------------------------------- double arithmetic

RECURSIVE Log2(_)
\* floor of the binary logarithm of v >= 1
Log2(v) == IF v <= 1 THEN 0 ELSE 1 + Log2(v \div 2)

\* v rounded to MantBits significant bits, to nearest, ties to even
RoundToDouble(v) ==
    IF v < 2^MantBits THEN v
    ELSE LET ulp == 2^(Log2(v) - MantBits + 1)
             lo  == (v \div ulp) * ulp
             rem == v - lo
         IN IF 2 * rem < ulp THEN lo
            ELSE IF 2 * rem > ulp THEN lo + ulp
            ELSE IF (lo \div ulp) % 2 = 0 THEN lo ELSE lo + ulp

\* it->second += p.second, on doubles
FAdd(x, y) == RoundToDouble(x + y)

\* ------------------------------------------------------ the postings record

\* counts is ascending (not necessarily strictly) by secondary key
Ascending(counts) ==
    \A i \in 1..(Len(counts) - 1) : counts[i].first <= counts[i + 1].first

\* counts is strictly ascending by secondary key: sorted, no key twice
StrictlyAscending(counts) ==
    \A i \in 1..(Len(counts) - 1) : counts[i].first < counts[i + 1].first

KeysOf(counts) == {counts[i].first : i \in DOMAIN counts}

\* the number of positions of counts that hold pair p
Occurrences(counts, p) == Cardinality({i \in DOMAIN counts : counts[i] = p})

SameMultiset(s, t) ==
    /\ Len(s) = Len(t)
    /\ \A p \in Range(s) \cup Range(t) : Occurrences(s, p) = Occurrences(t, p)

\* every ordering of the index set S
Orderings(S) ==
    {f \in [1..Cardinality(S) -> S] : \A i, j \in DOMAIN f : i # j => f[i] # f[j]}

sort_unsorted(s) == {s}

RECURSIVE sort(_)
\* std::sort with the comparator a.first < b.first: the pairs in ascending
\* key order; the order of pairs with equal keys is unspecified, so every
\* order of them is a possible result
sort(s) ==
    IF s = <<>> THEN {<<>>}
    ELSE LET k    == CHOOSE x \in KeysOf(s) : \A y \in KeysOf(s) : x <= y
             idx  == {i \in DOMAIN s : s[i].first = k}
             rest == SelectSeq(s, LAMBDA p : p.first # k)
         IN {[i \in 1..Cardinality(idx) |-> s[f[i]]] \o r :
                f \in Orderings(idx), r \in sort(rest)}

\* std::lower_bound over the first n pairs with the comparator p.first < s:
\* the first position (1..n+1) whose pair is not less than s
lower_bound(counts, n, s) ==
    CHOOSE i \in 1..(n + 1) :
        /\ i = n + 1 \/ ~(counts[i].first < s)
        /\ \A j \in 1..(i - 1) : counts[j].first < s

set_counts(counts) == sort(counts)

increase_count_append(counts, s_id, amount) ==
    LET it == lower_bound(counts, Len(counts), s_id)
    IN IF it = Len(counts) + 1 \/ counts[it].first # s_id
       THEN Append(counts, Pair(s_id, amount))
       ELSE [counts EXCEPT ![it].second = FAdd(@, amount)]

\* postings_data::increase_count
increase_count(counts, s_id, amount) ==
    LET it == lower_bound(counts, Len(counts), s_id)
    IN IF it = Len(counts) + 1
       THEN Append(counts, Pair(s_id, amount))
       ELSE IF counts[it].first # s_id
       THEN SubSeq(counts, 1, it - 1) \o <<Pair(s_id, amount)>>
                \o SubSeq(counts, it, Len(counts))
       ELSE [counts EXCEPT ![it].second = FAdd(@, amount)]

count_no_key_check(counts, s_id) ==
    LET it == lower_bound(counts, Len(counts), s_id)
    IN IF it = Len(counts) + 1 THEN 0 ELSE counts[it].second

\* postings_data::count
count(counts, s_id) ==
    LET it == lower_bound(counts, Len(counts), s_id)
    IN IF it = Len(counts) + 1 \/ counts[it].first # s_id
       THEN 0
       ELSE counts[it].second

RECURSIVE merge_loop_overwrite(_, _, _, _)
merge_loop_overwrite(counts, other, orig_length, i) ==
    IF i > Len(other) THEN counts
    ELSE LET p  == other[i]
             it == lower_bound(counts, orig_length, p.first)
         IN IF it = Len(counts) + 1 \/ counts[it].first # p.first
            THEN merge_loop_overwrite(Append(counts, p), other, orig_length, i + 1)
            ELSE merge_loop_overwrite([counts EXCEPT ![it].second = p.second],
                                      other, orig_length, i + 1)

RECURSIVE merge_loop(_, _, _, _)
\* the for loop of merge_with from the i-th pair of other on: the search
\* runs over the first orig_length pairs, and the iterator it returns is
\* compared with the end of the grown vector
merge_loop(counts, other, orig_length, i) ==
    IF i > Len(other) THEN counts
    ELSE LET p  == other[i]
             it == lower_bound(counts, orig_length, p.first)
         IN IF it = Len(counts) + 1 \/ counts[it].first # p.first
            THEN merge_loop(Append(counts, p), other, orig_length, i + 1)
            ELSE merge_loop([counts EXCEPT ![it].second = FAdd(@, p.second)],
                            other, orig_length, i + 1)

merge_with_unsorted(counts, other) == {merge_loop(counts, other, Len(counts), 1)}

\* postings_data::merge_with: the possible contents of _counts afterwards
merge_with(counts, other) == sort(merge_loop(counts, other, Len(counts), 1))

\* ---------------------------------------------------------------- state

VARIABLES
    rec,        \* one record: [p_id, counts]
    call,       \* the last call made on rec: [op, arg]
    inc_calls,  \* the increase_count calls made so far, while no other call was made
    only_inc,   \* no call other than increase_count was made on rec
    nops,       \* number of calls made on rec
    recs,       \* three records a, b, c that are merged into one another
    in0,        \* the records a, b, c as constructed
    mstage,     \* which merges were made: start, ab, ab_c, bc, a_bc, ba
    ser_rec,    \* the record that is written: [p_id, counts]
    ser_in,     \* ser_rec as constructed
    out,        \* the words written to the compressed file, in order
    rd,         \* the record that reads the file back: [p_id, counts]
    rpos,       \* the position of the reader: the next word of out it reads
    oob,        \* an element of an empty vector was accessed
    ser_pc,     \* start, written, crashed, read
    postings_,        \* postings_file: the words of the mapped postings file
    byte_locations_,  \* postings_file: where the record of each primary key starts
    file0,            \* the postings file as opened: [postings, byte_locations]
    ret,              \* the last find_stream(stream_pk) and find(find_pk) and what they
                      \* returned: [stream_pk, stream, find_pk, pdata]; a key is -1
                      \* before the first call
    chunk,      \* compress: the records of the uncompressed file, in order
    num_docs,   \* compress: the number of documents
    written,    \* compress: the records handed to out.write, in order
    cmp_pc,     \* start, done
    inv_idx,       \* uninvert: the inverted index, the counts (doc, c) of term t
                   \* at position t + 1
    inv_num_docs,  \* uninvert: inv_idx.num_docs()
    t_id,          \* uninvert: the term the loop is at
    buffer,        \* the producer's triples [doc, term, count] not yet spilled
    chunks,        \* the chunk files spilled so far, each a sequence of records
    fwd,           \* the postings file of the forward index: [postings, byte_locations]
    unv_pc,        \* idle, feeding, done
    lines,                \* libsvm: the lines of the input, each the (id, weight)
                          \* pairs as they stand on the line
    svm_d_id,             \* libsvm: d_id, the document the loop is at
    total_unique_terms_,  \* forward_index::impl::total_unique_terms_
    svm_out,              \* libsvm: the records handed to out.write, in order
    svm_file,             \* libsvm: the postings file once the writer is closed
    svm_pc,               \* idle, reading, done
    config,          \* create_index: what the configuration file holds
    disk,            \* the files of the index directory
    postings_state,  \* absent, stale (left from before), partial (a write
                     \* failed), complete
    loaded,          \* load_postings has opened the postings file
    idx_pc           \* idle, start, copied, libsvm, uninvert, written, loaded,
                     \* done (returned), aborted (an exception or the assert)

rec_vars == <<rec, call, inc_calls, only_inc, nops>>
mrg_vars == <<recs, in0, mstage>>
ser_vars == <<ser_rec, ser_in, out, rd, rpos, oob, ser_pc>>

file_vars == <<postings_, byte_locations_, file0, ret>>

cmp_vars == <<chunk, num_docs, written, cmp_pc>>

unv_vars == <<inv_idx, inv_num_docs, t_id, buffer, chunks, fwd, unv_pc>>

svm_vars == <<lines, svm_d_id, total_unique_terms_, svm_out, svm_file, svm_pc>>

idx_vars == <<config, disk, postings_state, loaded, idx_pc>>

vars == <<rec_vars, mrg_vars, ser_vars, file_vars, cmp_vars, unv_vars, svm_vars,
          idx_vars>>

\* ------------------------------------------- specification: one record

\* the primary key the record is constructed with
PrimaryKeys == {7}

\* postings_data::postings_data(PrimaryKey)
RecInit ==
    /\ rec \in {[p_id |-> p, counts |-> <<>>] : p \in PrimaryKeys}
    /\ call = [op |-> "new", arg |-> <<>>]
    /\ inc_calls = <<>>
    /\ only_inc = TRUE
    /\ nops = 0

\* the records one set_counts call makes: the operands of merge_with
Operands == UNION {set_counts(s) : s \in SeqsUpTo(Pairs, MaxLen)}

SetCounts ==
    /\ nops < MaxOps
    /\ \E s \in SeqsUpTo(Pairs, MaxLen) :
           /\ \E c \in set_counts(s) : rec' = [rec EXCEPT !.counts = c]
           /\ call' = [op |-> "set_counts", arg |-> s]
    /\ only_inc' = FALSE
    /\ inc_calls' = <<>>
    /\ nops' = nops + 1
    /\ UNCHANGED <<mrg_vars, ser_vars, file_vars, cmp_vars, unv_vars, svm_vars, idx_vars>>

IncreaseCount ==
    /\ nops < MaxOps
    /\ \E k \in Keys, d \in Weights :
           /\ rec' = [rec EXCEPT !.counts = increase_count(@, k, d)]
           /\ call' = [op |-> "increase_count", arg |-> Pair(k, d)]
           /\ inc_calls' = IF only_inc THEN Append(inc_calls, Pair(k, d)) ELSE <<>>
    /\ UNCHANGED only_inc
    /\ nops' = nops + 1
    /\ UNCHANGED <<mrg_vars, ser_vars, file_vars, cmp_vars, unv_vars, svm_vars, idx_vars>>

MergeWith ==
    /\ nops < MaxOps
    /\ \E other \in Operands :
           /\ \E c \in merge_with(rec.counts, other) : rec' = [rec EXCEPT !.counts = c]
           /\ call' = [op |-> "merge_with", arg |-> other]
    /\ only_inc' = FALSE
    /\ inc_calls' = <<>>
    /\ nops' = nops + 1
    /\ UNCHANGED <<mrg_vars, ser_vars, file_vars, cmp_vars, unv_vars, svm_vars, idx_vars>>

\* --------------------------------------- specification: merging records

\* the weights of the merged records: one, and the first power of two whose
\* successor is not representable
MergeWeights == Weights \ {0}

\* the valid counts: strictly ascending by secondary key
ValidCounts ==
    {s \in SeqsUpTo({Pair(k, w) : k \in Keys, w \in MergeWeights}, MaxLen) :
        StrictlyAscending(s)}

RecNames == {"a", "b", "c"}

\* a and b are grouped under one primary key, c under another
PrimaryKeyOf(n) == IF n = "c" THEN 8 ELSE 7

MrgInit ==
    /\ recs \in {[n \in RecNames |-> [p_id |-> PrimaryKeyOf(n), counts |-> f[n]]] :
                    f \in [RecNames -> ValidCounts]}
    /\ in0 = recs
    /\ mstage = "start"

MrgIdle ==
    /\ recs = [n \in RecNames |-> [p_id |-> PrimaryKeyOf(n), counts |-> <<>>]]
    /\ in0 = recs
    /\ mstage = "idle"

RecIdle ==
    /\ rec = [p_id |-> 7, counts |-> <<>>]
    /\ call = [op |-> "new", arg |-> <<>>]
    /\ inc_calls = <<>>
    /\ only_inc = TRUE
    /\ nops = MaxOps

\* dst.merge_with(src), made at stage from and leading to stage to
MergeRecords(dst, src, from, to) ==
    /\ mstage = from
    /\ \E c \in merge_with(recs[dst].counts, recs[src].counts) :
           recs' = [recs EXCEPT ![dst].counts = c]
    /\ mstage' = to
    /\ UNCHANGED <<in0, rec_vars, ser_vars, file_vars, cmp_vars, unv_vars, svm_vars, idx_vars>>

MergeAB == MergeRecords("a", "b", "start", "ab")
MergeAB_C == MergeRecords("a", "c", "ab", "ab_c")
MergeBC == MergeRecords("b", "c", "start", "bc")
MergeA_BC == MergeRecords("a", "b", "bc", "a_bc")
MergeBA == MergeRecords("b", "a", "start", "ba")

\* ------------------------------ specification: writing and reading back

\* bits of an unsigned word: a double is as wide as a word, MantBits - 1
\* bits of fraction below MantBits + 1 bits of exponent
WordBits == 2 * MantBits

WordMax == 2^WordBits - 1

\* postings_data::_delimiter, the word that ends a written record: the
\* largest unsigned word
Delimiter == WordMax

\* unsigned arithmetic on words
WAdd(x, y) == (x + y) % 2^WordBits
WSub(x, y) == (x - y + 2^WordBits) % 2^WordBits

\* *reinterpret_cast<uint64_t*>(&w): the word that holds the bits of the
\* double w, the exponent field above the fraction field
DoubleBits(w) ==
    IF w = 0 THEN 0
    ELSE LET e == Log2(w)
         IN (e + 1) * 2^(MantBits - 1) + ((w - 2^e) * 2^(MantBits - 1)) \div 2^e

\* *reinterpret_cast<double*>(&next): the double whose bits the word u holds
\* (u holds the bits of an integer-valued double)
BitsDouble(u) ==
    IF u = 0 THEN 0
    ELSE LET e == (u \div 2^(MantBits - 1)) - 1
             m == u % 2^(MantBits - 1)
         IN ((2^(MantBits - 1) + m) * 2^e) \div 2^(MantBits - 1)

\* compressed_file_writer::write: one more word at the end of the file
writer_write(file, v) == Append(file, v)

RECURSIVE write_pairs_absolute(_, _, _, _)
write_pairs_absolute(file, counts, cur_id, i) ==
    IF i > Len(counts) THEN file
    ELSE write_pairs_absolute(
             writer_write(writer_write(file, counts[i].first),
                          DoubleBits(counts[i].second)),
             counts, counts[i].first, i + 1)

RECURSIVE write_pairs(_, _, _, _)
\* the for loop of write_compressed from pair i on: the gap to the key
\* before, then the bits of the weight
write_pairs(file, counts, cur_id, i) ==
    IF i > Len(counts) THEN file
    ELSE write_pairs(
             writer_write(writer_write(file, WSub(counts[i].first, cur_id)),
                          DoubleBits(counts[i].second)),
             counts, counts[i].first, i + 1)

\* postings_data::write_compressed of a record with at least one pair, or of
\* any record when pair0 is what the read of mutable_counts[0] yields: the
\* file afterwards
write_compressed(file, counts, pair0) ==
    LET first == writer_write(writer_write(file, pair0.first),
                              DoubleBits(pair0.second))
    IN writer_write(write_pairs(first, counts, pair0.first, 2), Delimiter)

RECURSIVE read_compressed(_, _, _, _)
\* the while loop of read_compressed with the reader at pos: the counts
\* read and the position of the reader afterwards (a written record ends
\* with the delimiter, so the reader never runs past the end of the file)
read_compressed(file, pos, last_id, counts) ==
    IF pos > Len(file) \/ file[pos] = Delimiter
    THEN [counts |-> counts, pos |-> pos + 1]
    ELSE LET key == WAdd(last_id, file[pos])
         IN read_compressed(file, pos + 2, key,
                            Append(counts, Pair(key, BitsDouble(file[pos + 1]))))

\* the secondary keys of the written records: small ones and the two largest
SerKeys == Keys \cup {WordMax - 1, WordMax}

\* the records that are written: valid ones, the empty one among them
SerCounts ==
    {s \in SeqsUpTo({Pair(k, w) : k \in SerKeys, w \in Weights}, MaxLen) :
        StrictlyAscending(s)}

SerInit ==
    /\ ser_rec \in {[p_id |-> p, counts |-> c] : p \in PrimaryKeys, c \in SerCounts}
    /\ ser_in = ser_rec
    /\ out = <<>>
    /\ rd = [p_id |-> ser_rec.p_id, counts |-> <<>>]
    /\ rpos = 1
    /\ oob = FALSE
    /\ ser_pc = "start"

SerIdle ==
    /\ ser_rec = [p_id |-> 7, counts |-> <<>>]
    /\ ser_in = ser_rec
    /\ out = <<>>
    /\ rd = ser_rec
    /\ rpos = 1
    /\ oob = FALSE
    /\ ser_pc = "idle"

\* ser_rec.write_compressed(writer).  mutable_counts[0] of a record without
\* pairs is an element of an empty vector: the read is undefined, the
\* process stops there or goes on with whatever pair the memory holds
WriteCompressed ==
    /\ ser_pc = "start"
    /\ IF ser_rec.counts # <<>>
       THEN /\ out' = write_compressed(out, ser_rec.counts, ser_rec.counts[1])
            /\ ser_pc' = "written"
            /\ UNCHANGED oob
       ELSE /\ oob' = TRUE
            /\ \/ /\ ser_pc' = "crashed"
                  /\ UNCHANGED out
               \/ /\ \E k \in SerKeys, w \in Weights :
                         out' = write_compressed(out, ser_rec.counts, Pair(k, w))
                  /\ ser_pc' = "written"
    /\ UNCHANGED <<ser_rec, ser_in, rd, rpos>>
    /\ UNCHANGED <<rec_vars, mrg_vars, file_vars, cmp_vars, unv_vars, svm_vars, idx_vars>>

\* rd.read_compressed(reader)
ReadCompressed ==
    /\ ser_pc = "written"
    /\ LET r == read_compressed(out, rpos, 0, <<>>)
       IN /\ rd' = [rd EXCEPT !.counts = r.counts]
          /\ rpos' = r.pos
    /\ ser_pc' = "read"
    /\ UNCHANGED <<ser_rec, ser_in, out, oob>>
    /\ UNCHANGED <<rec_vars, mrg_vars, file_vars, cmp_vars, unv_vars, svm_vars, idx_vars>>

\* ------------------------------------ specification: the postings file

RECURSIVE pack_pairs(_, _)
\* the pairs of a packed record from pair i on: the difference to the key
\* before (the first key as it is), then the bits of the weight
pack_pairs(counts, i) ==
    IF i > Len(counts) THEN <<>>
    ELSE <<IF i = 1 THEN counts[1].first ELSE counts[i].first - counts[i - 1].first,
           DoubleBits(counts[i].second)>> \o pack_pairs(counts, i + 1)

\* the packed form of a record in a postings file: the number of pairs, then
\* the pairs
pack_record(counts) == <<Len(counts)>> \o pack_pairs(counts, 1)

RECURSIVE write_records(_, _)
\* postings_file_writer: the file that holds the records docs, the record of
\* primary key k starting at byte_locations[k + 1]
write_records(docs, i) ==
    IF i > Len(docs) THEN [postings |-> <<>>, byte_locations |-> <<>>]
    ELSE LET rest   == write_records(docs, i + 1)
             packed == pack_record(docs[i])
         IN [postings |-> packed \o rest.postings,
             byte_locations |->
                 <<0>> \o [j \in DOMAIN rest.byte_locations |->
                              rest.byte_locations[j] + Len(packed)]]

RECURSIVE stream_pairs(_, _, _, _)
\* postings_stream, begin() to end(): the n pairs a stream decodes from
\* position pos (1-based) of the postings on, last being the key before
stream_pairs(bytes, pos, n, last) ==
    IF n = 0 THEN <<>>
    ELSE LET key == last + bytes[pos]
         IN <<Pair(key, BitsDouble(bytes[pos + 1]))>>
                \o stream_pairs(bytes, pos + 2, n - 1, key)

\* the pairs of the stream that starts at byte offset start
stream_counts(bytes, start) ==
    stream_pairs(bytes, start + 2, bytes[start + 1], 0)

\* number of primary keys of the opened file
MaxDocs == 2

\* the counts of the records of the file
FileCounts ==
    {s \in SeqsUpTo({Pair(k, 1) : k \in Keys}, MaxLen) : StrictlyAscending(s)}

\* the primary keys that are looked up: those of the file and two beyond
LookupKeys == 0..(MaxDocs + 1)

nullopt == [nullopt |-> TRUE]

\* no lookup was made yet
NoLookup ==
    [stream_pk |-> -1, stream |-> nullopt,
     find_pk |-> -1, pdata |-> [p_id |-> 0, counts |-> <<>>]]

\* postings_file::postings_file: a file of up to MaxDocs records is opened
FileInit ==
    /\ \E docs \in SeqsUpTo(FileCounts, MaxDocs) :
           LET f == write_records(docs, 1)
           IN /\ postings_ = f.postings
              /\ byte_locations_ = f.byte_locations
              /\ file0 = f
    /\ ret = NoLookup

FileIdle ==
    /\ postings_ = <<>>
    /\ byte_locations_ = <<>>
    /\ file0 = [postings |-> <<>>, byte_locations |-> <<>>]
    /\ ret = NoLookup

find_stream_short(locations, pk) ==
    IF pk < Len(locations) - 1
    THEN [start |-> locations[pk + 1]]
    ELSE nullopt

\* postings_file::find_stream: the stream, or nullopt
find_stream(locations, pk) ==
    IF pk < Len(locations)
    THEN [start |-> locations[pk + 1]]
    ELSE nullopt

\* postings_file::find: the possible records it returns
find(bytes, locations, pk) ==
    IF pk < Len(locations)
    THEN LET stream == find_stream(locations, pk)
         IN {[p_id |-> pk, counts |-> c] :
                c \in set_counts(stream_counts(bytes, stream.start))}
    ELSE {[p_id |-> pk, counts |-> <<>>]}

FindStream ==
    /\ \E pk \in LookupKeys :
           ret' = [ret EXCEPT !.stream_pk = pk,
                              !.stream = find_stream(byte_locations_, pk)]
    /\ UNCHANGED <<postings_, byte_locations_, file0>>
    /\ UNCHANGED <<rec_vars, mrg_vars, ser_vars, cmp_vars, unv_vars, svm_vars, idx_vars>>

Find ==
    /\ \E pk \in LookupKeys :
           \E pdata \in find(postings_, byte_locations_, pk) :
               ret' = [ret EXCEPT !.find_pk = pk, !.pdata = pdata]
    /\ UNCHANGED <<postings_, byte_locations_, file0>>
    /\ UNCHANGED <<rec_vars, mrg_vars, ser_vars, cmp_vars, unv_vars, svm_vars, idx_vars>>

\* ------------------------------------ specification: the compress pass

RECURSIVE write_gaps(_, _, _)
\* the for loop that writes out any gaps: an empty record for each d_id
\* from d_id up to the primary key before pk
write_gaps(file, d_id, pk) ==
    IF d_id < pk
    THEN write_gaps(Append(file, [p_id |-> d_id, counts |-> <<>>]), d_id + 1, pk)
    ELSE file

RECURSIVE compress_loop(_, _, _, _)
\* the while loop of compress from the i-th record of the uncompressed file
\* on: the gaps after last_id, then the record
compress_loop(file, records, last_id, i) ==
    IF i > Len(records) THEN file
    ELSE LET pdata == records[i]
         IN compress_loop(
                Append(write_gaps(file, last_id + 1, pdata.p_id), pdata),
                records, pdata.p_id, i + 1)

compress_without_first(records) == compress_loop(<<>>, records, 0, 2)

\* forward_index::impl::compress: the records written, in order
compress(records) == compress_loop(<<>>, records, 0, 1)

\* the numbers of documents: one more than the keys of the postings file
DocCounts == 1..(MaxDocs + 1)

\* the uncompressed files of n documents: the records of some documents,
\* at least one, by strictly ascending primary key, each with pairs
ChunksOf(n) ==
    LET docs(S) == SelectSeq([i \in 1..n |-> i - 1], LAMBDA d : d \in S)
    IN UNION {
         {[i \in 1..Len(docs(S)) |-> [p_id |-> docs(S)[i], counts |-> f[docs(S)[i]]]] :
             f \in [S -> FileCounts \ {<<>>}]} :
         S \in (SUBSET (0..(n - 1))) \ {{}}}

CmpInit ==
    /\ num_docs \in DocCounts
    /\ chunk \in ChunksOf(num_docs)
    /\ written = <<>>
    /\ cmp_pc = "start"

CmpIdle ==
    /\ num_docs = 0
    /\ chunk = <<>>
    /\ written = <<>>
    /\ cmp_pc = "idle"

\* compress(filename, num_docs)
Compress ==
    /\ cmp_pc = "start"
    /\ written' = compress(chunk)
    /\ cmp_pc' = "done"
    /\ UNCHANGED <<chunk, num_docs>>
    /\ UNCHANGED <<rec_vars, mrg_vars, ser_vars, file_vars, unv_vars, svm_vars, idx_vars>>

\* --------------------------------------------- specification: uninvert

\* number of terms of the inverted index
MaxTerms == 2

\* the integers of S in ascending order
AscendingSeq(S) ==
    CHOOSE f \in Orderings(S) : \A i, j \in DOMAIN f : i < j => f[i] < f[j]

\* the count of term t in document d of an index of n documents: every
\* pair of the inverted index has a count of its own, so that a pair that
\* is moved, lost or repeated shows
InvWeight(d, t, n) == 1 + d + n * t

\* inverted_index::search_primary: the counts term t can have in an index of
\* n documents, at least one pair, by strictly ascending document
InvCounts(n, t) ==
    {[i \in 1..Cardinality(S) |->
         Pair(AscendingSeq(S)[i], InvWeight(AscendingSeq(S)[i], t, n))] :
        S \in (SUBSET (0..(n - 1))) \ {{}}}

RECURSIVE InvIndexesOf(_, _)
\* the inverted indexes of n documents and T terms
InvIndexesOf(n, T) ==
    IF T = 0 THEN {<<>>}
    ELSE {Append(idx, c) : idx \in InvIndexesOf(n, T - 1), c \in InvCounts(n, T - 1)}

\* the inverted indexes of n documents and up to MaxTerms terms
InvIndexes(n) == UNION {InvIndexesOf(n, T) : T \in 1..MaxTerms}

\* producer(key, counts): a triple for each pair of the counts of term key
producer(buf, key, counts) ==
    buf \o [i \in 1..Len(counts) |->
               [doc |-> counts[i].first, term |-> key, count |-> counts[i].second]]

\* the chunk file a buffer is spilled to: the triples sorted by (doc, term),
\* one record for each document
spill(buf) ==
    LET docs == AscendingSeq({buf[i].doc : i \in DOMAIN buf})
        terms(d) == AscendingSeq({buf[i].term : i \in {j \in DOMAIN buf : buf[j].doc = d}})
        triple(d, t) == buf[CHOOSE i \in DOMAIN buf : buf[i].doc = d /\ buf[i].term = t]
    IN [k \in 1..Len(docs) |->
           [p_id |-> docs[k],
            counts |-> [i \in 1..Len(terms(docs[k])) |->
                           Pair(terms(docs[k])[i],
                                triple(docs[k], terms(docs[k])[i]).count)]]]

RECURSIVE merge_two(_, _, _, _)
\* the two-way merge of chunk files a and b from their i-th and j-th record
\* on: the record of the smaller primary key, or the two merged when the
\* keys are equal
merge_two(a, b, i, j) ==
    IF i > Len(a) THEN {SubSeq(b, j, Len(b))}
    ELSE IF j > Len(b) THEN {SubSeq(a, i, Len(a))}
    ELSE IF a[i].p_id < b[j].p_id
    THEN {<<a[i]>> \o r : r \in merge_two(a, b, i + 1, j)}
    ELSE IF b[j].p_id < a[i].p_id
    THEN {<<b[j]>> \o r : r \in merge_two(a, b, i, j + 1)}
    ELSE {<<[p_id |-> a[i].p_id, counts |-> c]>> \o r :
             c \in merge_with(a[i].counts, b[j].counts),
             r \in merge_two(a, b, i + 1, j + 1)}

RECURSIVE merge_chunks(_)
\* chunk_handler::merge_chunks: pairs of chunk files are merged until one
\* remains
merge_chunks(cs) ==
    IF cs = <<>> THEN {<<>>}
    ELSE IF Len(cs) = 1 THEN {cs[1]}
    ELSE UNION {merge_chunks(<<m>> \o SubSeq(cs, 3, Len(cs))) :
                   m \in merge_two(cs[1], cs[2], 1, 1)}

\* postings_file_writer constructed for N primary keys, after the records
\* were written and the writer was closed: the record of each primary key,
\* an empty record for a primary key that was not written
postings_file_writer(records, N) ==
    write_records(
        [k \in 1..N |->
            IF \E i \in DOMAIN records : records[i].p_id = k - 1
            THEN records[CHOOSE i \in DOMAIN records : records[i].p_id = k - 1].counts
            ELSE <<>>], 1)

NoFile == [postings |-> <<>>, byte_locations |-> <<>>]

\* forward_index::impl::uninvert is called with an inverted index
UnvInit ==
    /\ inv_num_docs \in DocCounts
    /\ inv_idx \in InvIndexes(inv_num_docs)
    /\ t_id = 0
    /\ buffer = <<>>
    /\ chunks = <<>>
    /\ fwd = NoFile
    /\ unv_pc = "feeding"

UnvIdle ==
    /\ inv_num_docs = 0
    /\ inv_idx = <<>>
    /\ t_id = 0
    /\ buffer = <<>>
    /\ chunks = <<>>
    /\ fwd = NoFile
    /\ unv_pc = "idle"

\* the body of the for loop of uninvert: the counts of term t_id are handed
\* to the producer, whose buffer is spilled when it has grown too large
UninvertTerm ==
    /\ unv_pc = "feeding"
    /\ t_id < Len(inv_idx)
    /\ LET pdata == [p_id |-> t_id, counts |-> inv_idx[t_id + 1]]
           filled == producer(buffer, pdata.p_id, pdata.counts)
       IN \/ buffer' = filled /\ chunks' = chunks
          \/ buffer' = <<>> /\ chunks' = Append(chunks, spill(filled))
    /\ t_id' = t_id + 1
    /\ UNCHANGED <<inv_idx, inv_num_docs, fwd, unv_pc>>
    /\ UNCHANGED <<rec_vars, mrg_vars, ser_vars, file_vars, cmp_vars, svm_vars, idx_vars>>

\* the rest of uninvert: the producer goes out of scope and spills what it
\* holds, the chunks are merged, the merged chunk is compressed into the
\* postings file
UninvertFinish ==
    /\ unv_pc = "feeding"
    /\ t_id = Len(inv_idx)
    /\ LET spilled == IF buffer = <<>> THEN chunks ELSE Append(chunks, spill(buffer))
       IN /\ chunks' = spilled
          /\ \E merged \in merge_chunks(spilled) :
                 fwd' = postings_file_writer(compress(merged), inv_num_docs)
    /\ buffer' = <<>>
    /\ unv_pc' = "done"
    /\ UNCHANGED <<inv_idx, inv_num_docs, t_id>>
    /\ UNCHANGED <<rec_vars, mrg_vars, ser_vars, file_vars, cmp_vars, svm_vars, idx_vars>>

\* ---------------------------------------- specification: libsvm ingest

\* the weight of the i-th pair of line d: every pair of the input has a
\* weight of its own, so that a pair that is moved, lost or repeated shows
SvmWeight(d, i) == i + MaxLen * d

\* what line d (0-based) of the libsvm input can be: up to MaxLen (feature
\* id, weight) pairs, the ids 1-based, in any order and with repeats
SvmLines(d) ==
    {[i \in DOMAIN ids |-> Pair(ids[i], SvmWeight(d, i))] :
        ids \in SeqsUpTo(1..MaxKey, MaxLen)}

RECURSIVE SvmInputsOf(_)
\* the libsvm inputs of N lines
SvmInputsOf(N) ==
    IF N = 0 THEN {<<>>}
    ELSE {Append(f, line) : f \in SvmInputsOf(N - 1), line \in SvmLines(N - 1)}

\* the libsvm inputs of up to n lines
SvmInputs(n) == UNION {SvmInputsOf(N) : N \in 0..n}

\* io::libsvm_parser::counts: the pairs of the line in the order of the
\* line, one subtracted from each id
libsvm_counts(line) ==
    [i \in 1..Len(line) |-> Pair(line[i].first - 1, line[i].second)]

RECURSIVE unique_terms_loop_last(_, _, _)
unique_terms_loop_last(total, counts, i) ==
    IF i > Len(counts) THEN total
    ELSE unique_terms_loop_last(counts[i].first, counts, i + 1)

RECURSIVE unique_terms_loop(_, _, _)
\* the for loop over the counts of a line from the i-th pair on: what
\* total_unique_terms_ holds afterwards
unique_terms_loop(total, counts, i) ==
    IF i > Len(counts) THEN total
    ELSE unique_terms_loop(
             IF counts[i].first > total THEN counts[i].first ELSE total,
             counts, i + 1)

libsvm_record_without_counts(id, counts) == {[p_id |-> id, counts |-> <<>>]}

\* pdata{d_id} after pdata.set_counts(counts): the possible records
libsvm_record(id, counts) ==
    {[p_id |-> id, counts |-> c] : c \in set_counts(counts)}

\* create_libsvm_postings has opened the input and the writer
SvmInit ==
    /\ lines \in SvmInputs(MaxDocs)
    /\ svm_d_id = 0
    /\ total_unique_terms_ = 0
    /\ svm_out = <<>>
    /\ svm_file = NoFile
    /\ svm_pc = "reading"

\* the body of the while loop: one line is read, its record is written
ReadLine ==
    /\ svm_pc = "reading"
    /\ svm_d_id < Len(lines)
    /\ LET counts == libsvm_counts(lines[svm_d_id + 1])
       IN /\ total_unique_terms_' = unique_terms_loop(total_unique_terms_, counts, 1)
          /\ \E pdata \in libsvm_record(svm_d_id, counts) :
                 svm_out' = Append(svm_out, pdata)
    /\ svm_d_id' = svm_d_id + 1
    /\ UNCHANGED <<lines, svm_file, svm_pc>>
    /\ UNCHANGED <<rec_vars, mrg_vars, ser_vars, file_vars, cmp_vars, unv_vars, idx_vars>>

\* the end of the input: total_unique_terms_ is incremented, the writer goes
\* out of scope
EndOfInput ==
    /\ svm_pc = "reading"
    /\ svm_d_id = Len(lines)
    /\ total_unique_terms_' = total_unique_terms_ + 1
    /\ svm_file' = postings_file_writer(svm_out, Len(lines))
    /\ svm_pc' = "done"
    /\ UNCHANGED <<lines, svm_d_id, svm_out>>
    /\ UNCHANGED <<rec_vars, mrg_vars, ser_vars, file_vars, cmp_vars, unv_vars, idx_vars>>

SvmIdle ==
    /\ lines = <<>>
    /\ svm_d_id = 0
    /\ total_unique_terms_ = 0
    /\ svm_out = <<>>
    /\ svm_file = NoFile
    /\ svm_pc = "idle"

\* ------------------------------------------ specification: create_index

\* the sentinel that create_index writes and valid looks for
UNIQUE_TERMS == "corpus.uniqueterms"

\* disk_index::disk_index_impl::files, with the offset table of the postings
ImplFiles ==
    {"DOC_LABELS", "LABEL_IDS_MAPPING", "POSTINGS", "POSTINGS_INDEX",
     "TERM_IDS_MAPPING", "TERM_IDS_MAPPING_INVERSE", "METADATA_DB",
     "METADATA_INDEX"}

\* the files create_uninverted_metadata copies from the inverted index
UninvertedMetadata ==
    {"DOC_LABELS", "LABEL_IDS_MAPPING", "TERM_IDS_MAPPING",
     "TERM_IDS_MAPPING_INVERSE", "METADATA_DB", "METADATA_INDEX"}

\* the files the libsvm ingest leaves: the labels, the label id mapping,
\* the postings with their offset table, the metadata
LibsvmFiles ==
    {"DOC_LABELS", "LABEL_IDS_MAPPING", "POSTINGS", "POSTINGS_INDEX",
     "METADATA_DB", "METADATA_INDEX"}

\* the configurations: whether the keys prefix and dataset are there, the
\* number of analyzers tables, and the method of the first: none when the
\* key is missing
Configs ==
    [prefix : BOOLEAN, dataset : BOOLEAN, analyzers : {1, 2},
     method : {"none", "libsvm", "ngram-word"}]

valid_without_sentinel(files) ==
    \A f \in ImplFiles :
        f \in {"TERM_IDS_MAPPING", "TERM_IDS_MAPPING_INVERSE"} \/ f \in files

\* forward_index::valid, for an index directory that holds files
valid(files) ==
    IF UNIQUE_TERMS \notin files THEN FALSE
    ELSE \A f \in ImplFiles :
             f \in {"TERM_IDS_MAPPING", "TERM_IDS_MAPPING_INVERSE"} \/ f \in files

\* forward_index::impl::is_libsvm_format: what it returns, or that it throws
is_libsvm_format(cfg) ==
    IF cfg.analyzers # 1 THEN [throw |-> FALSE, result |-> FALSE]
    ELSE IF cfg.method = "none" THEN [throw |-> TRUE, result |-> FALSE]
    ELSE [throw |-> FALSE, result |-> cfg.method = "libsvm"]

\* create_index is called on an index directory without the sentinel; what
\* the directory holds is left from an earlier build
IdxInit ==
    /\ config \in Configs
    /\ disk \in SUBSET (ImplFiles \cup {"config.toml"})
    /\ postings_state = IF "POSTINGS" \in disk THEN "stale" ELSE "absent"
    /\ loaded = FALSE
    /\ idx_pc = "start"

\* filesystem::copy_file and cpptoml::parse_file
CopyConfig ==
    /\ idx_pc = "start"
    /\ disk' = disk \cup {"config.toml"}
    /\ idx_pc' = "copied"
    /\ UNCHANGED <<config, postings_state, loaded>>
    /\ UNCHANGED <<rec_vars, mrg_vars, ser_vars, file_vars, cmp_vars, unv_vars, svm_vars>>

\* if (fwd_impl_->is_libsvm_format(config))
IsLibsvmFormat ==
    /\ idx_pc = "copied"
    /\ idx_pc' = IF is_libsvm_format(config).throw THEN "aborted"
                 ELSE IF is_libsvm_format(config).result THEN "libsvm"
                 ELSE "uninvert"
    /\ UNCHANGED <<config, disk, postings_state, loaded>>
    /\ UNCHANGED <<rec_vars, mrg_vars, ser_vars, file_vars, cmp_vars, unv_vars, svm_vars>>

\* create_libsvm_postings and save_label_id_mapping: throws when prefix or
\* dataset is missing; the postings are written in full, or a write fails
\* and leaves a part of them
CreateLibsvmPostings ==
    /\ idx_pc = "libsvm"
    /\ IF ~config.prefix \/ ~config.dataset
       THEN /\ idx_pc' = "aborted"
            /\ UNCHANGED <<disk, postings_state>>
       ELSE \/ /\ disk' = disk \cup LibsvmFiles
               /\ postings_state' = "complete"
               /\ idx_pc' = "written"
            \/ /\ disk' = disk \cup {"DOC_LABELS", "POSTINGS", "POSTINGS_INDEX"}
               /\ postings_state' = "partial"
               /\ idx_pc' = "aborted"
    /\ UNCHANGED <<config, loaded>>
    /\ UNCHANGED <<rec_vars, mrg_vars, ser_vars, file_vars, cmp_vars, unv_vars, svm_vars>>

\* the else branch: the inverted index is made, its metadata is copied, it
\* is uninverted; making the inverted index fails, or the postings are
\* written in full, or a write fails and leaves a part of them
Uninvert ==
    /\ idx_pc = "uninvert"
    /\ \/ /\ idx_pc' = "aborted"
          /\ UNCHANGED <<disk, postings_state>>
       \/ /\ disk' = disk \cup UninvertedMetadata \cup {"POSTINGS", "POSTINGS_INDEX"}
          /\ postings_state' = "complete"
          /\ idx_pc' = "written"
       \/ /\ disk' = disk \cup UninvertedMetadata \cup {"POSTINGS", "POSTINGS_INDEX"}
          /\ postings_state' = "partial"
          /\ idx_pc' = "aborted"
    /\ UNCHANGED <<config, loaded>>
    /\ UNCHANGED <<rec_vars, mrg_vars, ser_vars, file_vars, cmp_vars, unv_vars, svm_vars>>

\* load_label_id_mapping, load_postings, initialize_metadata, load_labels:
\* the postings file is opened, or opening it fails
LoadPostings ==
    /\ idx_pc = "written"
    /\ \/ loaded' = TRUE /\ idx_pc' = "loaded"
       \/ loaded' = FALSE /\ idx_pc' = "aborted"
    /\ UNCHANGED <<config, disk, postings_state>>
    /\ UNCHANGED <<rec_vars, mrg_vars, ser_vars, file_vars, cmp_vars, unv_vars, svm_vars>>

\* std::ofstream unique_terms_file{...}: the sentinel is created, or creating
\* it fails; then the assert stops the program, or, in a build without
\* asserts, create_index returns
WriteUniqueTerms ==
    /\ idx_pc = "loaded"
    /\ \/ disk' = disk \cup {UNIQUE_TERMS} /\ idx_pc' = "done"
       \/ disk' = disk /\ idx_pc' = "aborted"
       \/ disk' = disk /\ idx_pc' = "done"
    /\ UNCHANGED <<config, postings_state, loaded>>
    /\ UNCHANGED <<rec_vars, mrg_vars, ser_vars, file_vars, cmp_vars, unv_vars, svm_vars>>

IdxIdle ==
    /\ config = [prefix |-> FALSE, dataset |-> FALSE, analyzers |-> 0, method |-> "none"]
    /\ disk = {}
    /\ postings_state = "absent"
    /\ loaded = FALSE
    /\ idx_pc = "idle"

\* ------------------------------------------------------- specifications

\* the parts of the model that a specification leaves alone
CoreIdle == RecIdle /\ MrgIdle /\ SerIdle /\ FileIdle /\ CmpIdle
OthersIdle == UnvIdle /\ SvmIdle /\ IdxIdle

\* any sequence of calls on one record
Init == RecInit /\ MrgIdle /\ SerIdle /\ FileIdle /\ CmpIdle /\ OthersIdle
Next == SetCounts \/ IncreaseCount \/ MergeWith
Spec == Init /\ [][Next]_vars

\* set_counts calls only: one on the record as constructed, one on the
\* record that the first call filled
SetCountsOnly == nops <= 1 /\ SetCounts
SpecSetCounts == Init /\ [][SetCountsOnly]_vars

\* increase_count calls only, from the empty record
SpecIncrease == Init /\ [][IncreaseCount]_vars

\* merges of valid records
MrgNext == MergeAB \/ MergeAB_C \/ MergeBC \/ MergeA_BC \/ MergeBA
MergeInit == RecIdle /\ MrgInit /\ SerIdle /\ FileIdle /\ CmpIdle /\ OthersIdle
SpecMerge == MergeInit /\ [][MrgNext]_vars

\* a record written to a compressed file and read back
SerNext == WriteCompressed \/ ReadCompressed
SerStart == RecIdle /\ MrgIdle /\ SerInit /\ FileIdle /\ CmpIdle /\ OthersIdle
SpecSerial == SerStart /\ [][SerNext]_vars

\* lookups in an opened postings file
FileNext == FindStream \/ Find
FileStart == RecIdle /\ MrgIdle /\ SerIdle /\ FileInit /\ CmpIdle /\ OthersIdle
SpecFile == FileStart /\ [][FileNext]_vars

\* the compress pass over an uncompressed file
CmpStart == RecIdle /\ MrgIdle /\ SerIdle /\ FileIdle /\ CmpInit /\ OthersIdle
SpecCompress == CmpStart /\ [][Compress]_vars

\* the uninversion of an inverted index
UnvNext == UninvertTerm \/ UninvertFinish
UnvStart == CoreIdle /\ UnvInit /\ SvmIdle /\ IdxIdle
SpecUninvert == UnvStart /\ [][UnvNext]_vars

\* the direct ingest of a libsvm input
SvmNext == ReadLine \/ EndOfInput
SvmStart == CoreIdle /\ UnvIdle /\ SvmInit /\ IdxIdle
SpecLibsvm == SvmStart /\ [][SvmNext]_vars

\* create_index, from the call to its return or abort
IdxNext ==
    \/ CopyConfig
    \/ IsLibsvmFormat
    \/ CreateLibsvmPostings
    \/ Uninvert
    \/ LoadPostings
    \/ WriteUniqueTerms
IdxStart == CoreIdle /\ UnvIdle /\ SvmIdle /\ IdxInit
SpecCreateIndex == IdxStart /\ [][IdxNext]_vars

\* ------------------------------------------------- claims on one record

HasRepeatedKey(s) == \E i, j \in DOMAIN s : i # j /\ s[i].first = s[j].first

\* C1, as stated: after set_counts on any input sequence, unsorted or with a
\* secondary key more than once, the counts are strictly ascending by
\* secondary key with no duplicate key.
C1_SetCountsStrictlyAscending ==
    call.op = "set_counts" => StrictlyAscending(rec.counts)

\* C1, amended: after set_counts(seq) the counts are ascending by secondary
\* key and hold exactly the pairs of seq, each as often as seq holds it; they
\* are strictly ascending without a duplicate key exactly when seq holds no
\* secondary key twice.
C1_SetCountsSortsKeepsPairs ==
    call.op = "set_counts" =>
        /\ Ascending(rec.counts)
        /\ SameMultiset(rec.counts, call.arg)
        /\ StrictlyAscending(rec.counts) <=> ~HasRepeatedKey(call.arg)

C1_Witness ==
    /\ call.op = "set_counts"
    /\ Len(call.arg) >= 2
    /\ ~Ascending(call.arg)
    /\ Ascending(rec.counts)

\* the first position of counts that holds key k
FirstIndex(counts, k) ==
    CHOOSE i \in DOMAIN counts :
        counts[i].first = k /\ \A j \in 1..(i - 1) : counts[j].first # k

\* C4, as stated: for a record reached by set_counts, increase_count and
\* merge_with calls, count(k) is 0 if and only if k is not in counts().
C4_CountZeroIffAbsent ==
    \A k \in Keys : count(rec.counts, k) = 0 <=> k \notin KeysOf(rec.counts)

\* C4, amended: count(k) is 0 when k is not in counts(); when k is in
\* counts(), count(k) is the weight stored for k (of the first pair holding
\* k), which may be 0: count(k) is 0 if and only if k is absent or stored
\* with weight 0.
C4_CountIsStoredWeight ==
    \A k \in Keys :
        /\ k \notin KeysOf(rec.counts) => count(rec.counts, k) = 0
        /\ k \in KeysOf(rec.counts) =>
               count(rec.counts, k) = rec.counts[FirstIndex(rec.counts, k)].second
        /\ count(rec.counts, k) = 0 <=>
               \/ k \notin KeysOf(rec.counts)
               \/ rec.counts[FirstIndex(rec.counts, k)].second = 0

C4_Witness ==
    /\ nops >= 2
    /\ \E k \in Keys :
           /\ k \in KeysOf(rec.counts)
           /\ count(rec.counts, k) = 0
    /\ \E k \in Keys :
           /\ k \in KeysOf(rec.counts)
           /\ count(rec.counts, k) > 0
    /\ \E k \in Keys : k \notin KeysOf(rec.counts)

RECURSIVE SumOfCalls(_, _)
\* the amounts of the calls on key k, added in call order as the record adds
\* them; calls holds at least one call on k
SumOfCalls(calls, k) ==
    LET last == calls[Len(calls)]
        init == SubSeq(calls, 1, Len(calls) - 1)
    IN IF last.first # k THEN SumOfCalls(init, k)
       ELSE IF k \in KeysOf(init) THEN FAdd(SumOfCalls(init, k), last.second)
       ELSE last.second

\* C5: starting from an empty record, after any sequence of increase_count
\* calls the counts are strictly ascending by secondary key, hold exactly the
\* keys that were passed, and store for each key the sum of the amounts of
\* its calls (so each call changes the pair of its key only).
C5_IncreaseCountSums ==
    only_inc =>
        /\ StrictlyAscending(rec.counts)
        /\ KeysOf(rec.counts) = KeysOf(inc_calls)
        /\ \A i \in DOMAIN rec.counts :
               rec.counts[i].second = SumOfCalls(inc_calls, rec.counts[i].first)

C5_Witness ==
    /\ only_inc
    /\ Len(inc_calls) = 3
    /\ inc_calls[2].first < inc_calls[1].first
    /\ inc_calls[3].first = inc_calls[1].first
    /\ inc_calls[3].second > 0
    /\ Len(rec.counts) = 2

\* ------------------------------------------------- claims on merge_with

\* the weight counts stores for key k, 0 when k is absent
WeightOf(counts, k) ==
    IF k \in KeysOf(counts) THEN counts[FirstIndex(counts, k)].second ELSE 0

\* C2: for valid records a and b, a.merge_with(b) leaves a with the union of
\* the two key sets, strictly ascending, a key of both carrying the sum of
\* the two weights and a key of one its weight unchanged; a's primary key is
\* unchanged and b is not modified.
C2_MergeIsUnionWithSums ==
    mstage = "ab" =>
        LET a == in0["a"].counts
            b == in0["b"].counts
            m == recs["a"].counts
        IN /\ StrictlyAscending(m)
           /\ KeysOf(m) = KeysOf(a) \cup KeysOf(b)
           /\ \A i \in DOMAIN m :
                  LET k == m[i].first
                  IN m[i].second =
                         IF k \in KeysOf(a) /\ k \in KeysOf(b)
                         THEN FAdd(WeightOf(a, k), WeightOf(b, k))
                         ELSE IF k \in KeysOf(a) THEN WeightOf(a, k)
                         ELSE WeightOf(b, k)
           /\ recs["a"].p_id = in0["a"].p_id
           /\ recs["b"] = in0["b"]

\* a key of both records, a key of a only, and a key of b only that lies
\* between two keys of a
C2_Witness ==
    /\ mstage = "ab"
    /\ Len(in0["a"].counts) = 2
    /\ Len(in0["b"].counts) = 2
    /\ in0["a"].counts[2].first = in0["b"].counts[2].first
    /\ in0["a"].counts[1].first < in0["b"].counts[1].first
    /\ Len(recs["a"].counts) = 3

\* merge_with is commutative: a.merge_with(b) and b.merge_with(a) leave the
\* same counts
MergeCommutes ==
    mstage = "ab" =>
        merge_with(in0["b"].counts, in0["a"].counts) = {recs["a"].counts}

\* (a merged with b) merged with c has the counts of a merged with (b merged
\* with c)
MergeAssociates ==
    mstage = "ab_c" =>
        UNION {merge_with(in0["a"].counts, bc) :
                  bc \in merge_with(in0["b"].counts, in0["c"].counts)}
            = {recs["a"].counts}

ExactAdd(x, y) == FAdd(x, y) = x + y

\* none of the sums the two groupings make of the weights of one key is
\* rounded
NoSumRounded ==
    \A k \in Keys :
        LET wa == WeightOf(in0["a"].counts, k)
            wb == WeightOf(in0["b"].counts, k)
            wc == WeightOf(in0["c"].counts, k)
        IN /\ ExactAdd(wa, wb)
           /\ ExactAdd(wa + wb, wc)
           /\ ExactAdd(wb, wc)
           /\ ExactAdd(wa, wb + wc)

\* C3, as stated: merge_with is commutative and associative on the counts.
C3_MergeCommutativeAssociative == MergeCommutes /\ MergeAssociates

\* C3, amended: merge_with is commutative, and it is associative whenever no
\* sum of weights is rounded (weights are doubles: a sum that is not
\* representable is rounded, and the two groupings may round differently).
C3_MergeCommutativeAssociativeWhenExact ==
    /\ MergeCommutes
    /\ NoSumRounded => MergeAssociates

\* three records that share a key, and whose weights add up exactly
C3_Witness ==
    /\ mstage = "ab_c"
    /\ NoSumRounded
    /\ \E k \in Keys :
           /\ k \in KeysOf(in0["a"].counts)
           /\ k \in KeysOf(in0["b"].counts)
           /\ k \in KeysOf(in0["c"].counts)
           /\ WeightOf(recs["a"].counts, k) =
                  WeightOf(in0["a"].counts, k) + WeightOf(in0["b"].counts, k)
                      + WeightOf(in0["c"].counts, k)
    /\ Len(recs["a"].counts) > Len(in0["a"].counts)

\* ------------------------------------- claims on writing and reading back

\* C6: writing a valid record and reading it back from the written words
\* yields the same sequence of pairs, and the reader consumes exactly the
\* words the writer produced (the write completes, and after the read the
\* reader stands behind the last written word).
C6_RoundTrip ==
    /\ ser_pc # "crashed"
    /\ ser_pc = "read" =>
           /\ rd.counts = ser_in.counts
           /\ rpos = Len(out) + 1

\* C7: a record with zero pairs is written without any secondary key or
\* weight (only the end of the record is written), the write accesses no
\* element of the empty counts, and reading the file back yields empty counts.
C7_EmptyRecordWrittenSafely ==
    (ser_in.counts = <<>> /\ ser_pc \in {"written", "crashed", "read"}) =>
        /\ ~oob
        /\ ser_pc # "crashed"
        /\ out = <<Delimiter>>
        /\ ser_pc = "read" => rd.counts = <<>>

\* C8, as stated (for a record with n >= 1 pairs): the written form is n,
\* the first key, its weight, then for each further pair the difference to
\* the key before and the weight, and nothing else.
C8_CountPrefixedForm ==
    (ser_pc = "written" /\ ser_in.counts # <<>>) =>
        LET c == ser_in.counts
            n == Len(c)
        IN /\ Len(out) = 1 + 2 * n
           /\ out[1] = n
           /\ \A i \in 1..n :
                  /\ out[2 * i] = IF i = 1 THEN c[1].first
                                  ELSE c[i].first - c[i - 1].first
                  /\ out[2 * i + 1] = DoubleBits(c[i].second)

\* C8, amended: the written form of a record with n >= 1 pairs is the first
\* key as an absolute value and the bits of its weight, then for each further
\* pair the strictly positive difference to the key before and the bits of
\* the weight, then the delimiter; no pair count is written; the record in
\* memory is left unchanged.
C8_DelimiterTerminatedForm ==
    (ser_pc = "written" /\ ser_in.counts # <<>>) =>
        LET c == ser_in.counts
            n == Len(c)
        IN /\ Len(out) = 2 * n + 1
           /\ out[1] = c[1].first
           /\ \A i \in 2..n :
                  /\ out[2 * i - 1] = c[i].first - c[i - 1].first
                  /\ out[2 * i - 1] > 0
           /\ \A i \in 1..n : out[2 * i] = DoubleBits(c[i].second)
           /\ out[2 * n + 1] = Delimiter
           /\ ser_rec = ser_in

\* two pairs whose keys are more than one apart
C8_Witness ==
    /\ ser_pc = "written"
    /\ Len(ser_in.counts) = 2
    /\ ser_in.counts[1].first > 0
    /\ ser_in.counts[2].first > ser_in.counts[1].first + 1
    /\ Len(out) = 5

\* ------------------------------------------- claims on the postings file

\* C9: for an offset table of N entries, find_stream(pk) returns a stream
\* positioned at offsets[pk] if pk < N and nullopt if pk >= N; find(pk) with
\* pk >= N returns a record with primary key pk and empty counts; neither
\* changes the postings or the offset table.
C9_LookupBounds ==
    LET N == Len(file0.byte_locations)
    IN /\ ret.stream_pk >= 0 =>
              IF ret.stream_pk < N
              THEN ret.stream = [start |-> file0.byte_locations[ret.stream_pk + 1]]
              ELSE ret.stream = nullopt
       /\ ret.find_pk >= N =>
              ret.pdata = [p_id |-> ret.find_pk, counts |-> <<>>]
       /\ postings_ = file0.postings
       /\ byte_locations_ = file0.byte_locations

\* in a file of two records, of which the first has pairs: a stream for the
\* last primary key, and a find of the first primary key beyond the file
C9_Witness ==
    /\ Len(byte_locations_) = 2
    /\ ret.stream_pk = Len(byte_locations_) - 1
    /\ ret.stream # nullopt
    /\ ret.stream.start > 1
    /\ ret.find_pk = Len(byte_locations_)
    /\ ret.pdata.counts = <<>>

\* ------------------------------------------- claims on the compress pass

ChunkKeys == {chunk[i].p_id : i \in DOMAIN chunk}

\* C10: for an uncompressed file whose records are sorted by strictly
\* ascending primary key with all keys in [0, num_docs), the pass writes
\* exactly num_docs records, the k-th record written has primary key k, each
\* key absent from the input is written as an empty record and each input
\* record is written with its counts unchanged.
C10_CompressWritesDenseFile ==
    cmp_pc = "done" =>
        /\ Len(written) = num_docs
        /\ \A k \in 0..(num_docs - 1) :
               /\ written[k + 1].p_id = k
               /\ k \notin ChunkKeys => written[k + 1].counts = <<>>
               /\ \A i \in DOMAIN chunk :
                      chunk[i].p_id = k => written[k + 1] = chunk[i]

\* ------------------------------------------------- claims on uninversion

\* the inverted index holds the pair (doc, c) under term
InvertedHolds(term, doc, c) ==
    /\ term < Len(inv_idx)
    /\ Pair(doc, c) \in Range(inv_idx[term + 1])

ZeroBased(line) == [i \in 1..Len(line) |-> Pair(line[i].first - 1, line[i].second)]

\* counts is the pairs of the line, ids 0-based, ascending by feature id
SortedPairsOf(counts, line) ==
    /\ Ascending(counts)
    /\ SameMultiset(counts, ZeroBased(line))

\* C12: one record is written for each line, in line order: the record of
\* line d (0-based) has primary key d and its counts are the pairs of the
\* line with the ids 0-based, ascending by feature id; for an input of N
\* lines exactly N records are written, and find(d).counts() is the sorted
\* pairs of line d.
C12_OneRecordPerLine ==
    /\ Len(svm_out) = svm_d_id
    /\ \A d \in 0..(svm_d_id - 1) :
           /\ svm_out[d + 1].p_id = d
           /\ SortedPairsOf(svm_out[d + 1].counts, lines[d + 1])
    /\ svm_pc = "done" =>
           /\ Len(svm_out) = Len(lines)
           /\ Len(svm_file.byte_locations) = Len(lines)
           /\ \A d \in 0..(Len(lines) - 1) :
                  \A pdata \in find(svm_file.postings, svm_file.byte_locations, d) :
                      /\ pdata.p_id = d
                      /\ SortedPairsOf(pdata.counts, lines[d + 1])

\* the feature ids of a line, in the order of the line
IdsOf(line) == [i \in DOMAIN line |-> line[i].first]

\* two lines were ingested: the first holds the ids 2 and 1 (not sorted),
\* the second the id 2 alone (no feature 0)
C12_Witness ==
    /\ svm_pc = "done"
    /\ Len(lines) = 2
    /\ IdsOf(lines[1]) = <<2, 1>>
    /\ IdsOf(lines[2]) = <<2>>
    /\ svm_out[1].counts
           = <<Pair(0, lines[1][2].second), Pair(1, lines[1][1].second)>>
    /\ find(svm_file.postings, svm_file.byte_locations, 0) = {svm_out[1]}
    /\ find(svm_file.postings, svm_file.byte_locations, 1)
           = {[p_id |-> 1, counts |-> <<Pair(1, lines[2][1].second)>>]}

\* the feature ids on the wire, over all lines
WireIds == UNION {{lines[d][i].first : i \in DOMAIN lines[d]} : d \in DOMAIN lines}

\* C13: after the ingest of an input, total_unique_terms is the maximum
\* 0-based feature id observed over all documents plus one, which is the
\* largest 1-based id on the wire, whatever the order of the lines and of the
\* features within a line.  The maximum is that of the set of the ids of the
\* input, which is the same for every order.
C13_TotalUniqueTerms ==
    (svm_pc = "done" /\ WireIds # {}) =>
        LET ids0 == {id - 1 : id \in WireIds}
            max0 == CHOOSE m \in ids0 : \A k \in ids0 : k <= m
            max1 == CHOOSE m \in WireIds : \A k \in WireIds : k <= m
        IN /\ total_unique_terms_ = max0 + 1
           /\ total_unique_terms_ = max1

\* the largest id is the first feature of the first line, smaller ids follow
C13_Witness ==
    /\ svm_pc = "done"
    /\ Len(lines) = 2
    /\ IdsOf(lines[1]) = <<2, 1>>
    /\ IdsOf(lines[2]) = <<1>>
    /\ total_unique_terms_ = 2

\* --------------------------------------------- claims on create_index

\* create_index is between its call and its return
Running == idx_pc \in {"start", "copied", "libsvm", "uninvert", "written", "loaded"}

\* C14: the sentinel corpus.uniqueterms is written last.  Starting from an
\* index directory without it, in every state while create_index is running
\* and after it aborts (prefix or dataset missing, analyzer method missing,
\* a failure while the postings are written or loaded) the sentinel does not
\* exist and valid() returns false; the sentinel exists only in states where
\* the postings file has been written in full and loaded.
C14_SentinelWrittenLast ==
    /\ (Running \/ idx_pc = "aborted") =>
           /\ UNIQUE_TERMS \notin disk
           /\ ~valid(disk)
    /\ UNIQUE_TERMS \in disk =>
           /\ postings_state = "complete"
           /\ loaded
           /\ idx_pc = "done"

\* create_index aborted after a failed write of the postings, in a directory
\* that holds every other file of an index
C14_Witness ==
    /\ idx_pc = "aborted"
    /\ postings_state = "partial"
    /\ ImplFiles \subseteq disk

====
